---- MODULE Spec2Model ----
(***************************************************************************)
(* Verification model of taljeon/Vexum.                                    *)
(*                                                                         *)
(* union_find.c: a disjoint-set forest (parent, rank, component_count)     *)
(* with path compression and union by rank, driven by main's query loop,   *)
(* which decodes every raw pair (a, b) with the accumulator F.             *)
(*                                                                         *)
(* kadai12.c: a singly linked list of student records with a menu loop     *)
(* (push = insertCell, pop = deleteCell) and a sorted copy in stub.        *)
(* kadai13.c: process_insts turns a text of move instructions into marks,  *)
(* sort_marks orders the marks.                                            *)
(*                                                                         *)
(* Five specifications share the variables:                                *)
(*   SpecDS    find and union_sets called directly on arbitrary elements   *)
(*             of [0,N), in any order;                                     *)
(*   Spec      main() of union_find.c: initialize(N), then Q queries read  *)
(*             from the input, decoded, and dispatched by position parity; *)
(*   SpecList  main() of kadai12.c: load, then the menu loop;              *)
(*   SpecInsts process_insts of kadai13.c on the text read by read_input;  *)
(*   SpecSort  sort_marks of kadai13.c on arbitrary arrays.                *)
(***************************************************************************)
EXTENDS Integers, Sequences, FiniteSets, TLC

\* ---------------------------------------------------------------- bounds
\* Largest universe size N explored when the structure is called directly.
MaxN == 4
\* Largest universe size N and query count Q read by main.
MaxProgN == 3
MaxQ == 3
\* Raw query operands a, b range over -1 .. MaxRaw.
MaxRaw == 1

VARIABLES
    N, Q,               \* main: int N, Q                (union_find.c:49)
    parent, rank,       \* int parent[], rank[]           (union_find.c:6-7)
    component_count,    \* int component_count            (union_find.c:10)
    F,                  \* main: long long F              (union_find.c:54)
    i,                  \* main: loop counter             (union_find.c:56)
    a, b,               \* main: raw operands of a query  (union_find.c:57)
    x, y,               \* operands handed to find/union_sets (union_find.c:61-69)
    out,                \* lines printed so far, as 0/1   (union_find.c:78,81)
    pc,                 \* position of the running program
    op,                 \* the operation that produced this state
    part,               \* history: the partition generated by the operand pairs
                        \* given to union_sets so far, as operand -> least
                        \* member of its class
    count,              \* kadai12 main: int count (kadai12.c:32);
                        \* kadai13 process_insts: int count (kadai13.c:54),
                        \* handed on as n to sort_marks (kadai13.c:110,114)
    list,               \* kadai12: the cells reachable from head (kadai12.c:17)
    stub,               \* kadai12 main: STUS stub[NUM]   (kadai12.c:31)
    prevName,           \* kadai12 main: char prevName[50] (kadai12.c:34)
    delRet,             \* kadai12: last value returned by deleteCell
    input,              \* kadai13 main: char input[TEXTLEN+1] (kadai13.c:107)
    pos,                \* kadai13 process_insts: offset of in (kadai13.c:59-64)
    px, py,             \* kadai13 process_insts: int x, y (kadai13.c:53)
    xs, ys,             \* kadai13: the written part of Xs, Ys (kadai13.c:106)
    xs0, ys0            \* history: xs, ys as handed to sort_marks

ufVars == <<N, Q, parent, rank, component_count, F, i, a, b, x, y, out, part>>
listVars == <<list, stub, prevName, delRet>>
marksVars == <<input, pos, px, py, xs, ys, xs0, ys0>>

vars == <<ufVars, pc, op, count, listVars, marksVars>>

\* union_find.c does not touch the state of the other two programs, and
\* they do not touch its state.
UFIdle ==
    /\ N = 0 /\ Q = 0 /\ parent = <<>> /\ rank = <<>> /\ component_count = 0
    /\ F = 0 /\ i = 0 /\ a = 0 /\ b = 0 /\ x = 0 /\ y = 0
    /\ out = <<>> /\ part = <<>>
ListIdle == list = <<>> /\ stub = <<>> /\ prevName = "" /\ delRet = 0
MarksIdle ==
    /\ input = <<>> /\ pos = 0 /\ px = 0 /\ py = 0
    /\ xs = <<>> /\ ys = <<>> /\ xs0 = <<>> /\ ys0 = <<>>

Elems(n) == 0 .. (n - 1)

\* Every value a decoded operand can take: |(a ^ F) % N| < N.
Nodes(n) == (1 - n) .. (n - 1)

\* ------------------------------------------------------------ initialize
\* Faulty variant of initialize: component_count starts at 0.
initialize_zero_count(n) ==
    [parent |-> [e \in Elems(n) |-> e],
     rank   |-> [e \in Elems(n) |-> 0],
     component_count |-> 0]

\* initialize(n): parent[i] = i, rank[i] = 0, component_count = n.
initialize(n) ==
    [parent |-> [e \in Elems(n) |-> e],
     rank   |-> [e \in Elems(n) |-> 0],
     component_count |-> n]

\* ------------------------------------------------------------------ find
\* find(x), by the code's recursion.  par is the parent array after the
\* call (path compression assigns parent[x] on the way back), ret the
\* value returned.  A walk over n elements that makes more than n
\* recursive calls has revisited an element, so the recursion of the code
\* never returns (it exhausts the stack): ok = FALSE.
RECURSIVE findRec(_, _, _)
findRec(p, e, fuel) ==
    IF p[e] # e
    THEN IF fuel = 0
         THEN [par |-> p, ret |-> e, ok |-> FALSE]
         ELSE LET r == findRec(p, p[e], fuel - 1)
              IN  [par |-> [r.par EXCEPT ![e] = r.ret],
                   ret |-> r.ret,
                   ok  |-> r.ok]
    ELSE [par |-> p, ret |-> p[e], ok |-> TRUE]

\* Faulty variant of find: the walk to the root without path compression.
find_no_compress(p, e) ==
    [par |-> p, ret |-> findRec(p, e, Cardinality(DOMAIN p)).ret,
     ok |-> findRec(p, e, Cardinality(DOMAIN p)).ok]

\* Faulty variant of find: one step up instead of the walk to the root.
find_one_step(p, e) == [par |-> p, ret |-> p[e], ok |-> TRUE]

find(p, e) == findRec(p, e, Cardinality(DOMAIN p))

\* ------------------------------------------------------------ union_sets
\* Faulty variant of union_sets: the tie branch forgets component_count--.
union_sets_tie_keeps_count(p, rk, cc, e1, e2) ==
    LET fx == find(p, e1)
        fy == find(fx.par, e2)
        rootX == fx.ret
        rootY == fy.ret
        p2 == fy.par
    IN  IF rootX # rootY
        THEN IF rk[rootX] > rk[rootY]
             THEN [parent |-> [p2 EXCEPT ![rootY] = rootX], rank |-> rk,
                   component_count |-> cc - 1, ok |-> fx.ok /\ fy.ok]
             ELSE IF rk[rootX] < rk[rootY]
             THEN [parent |-> [p2 EXCEPT ![rootX] = rootY], rank |-> rk,
                   component_count |-> cc - 1, ok |-> fx.ok /\ fy.ok]
             ELSE [parent |-> [p2 EXCEPT ![rootY] = rootX],
                   rank |-> [rk EXCEPT ![rootX] = rk[rootX] + 1],
                   component_count |-> cc, ok |-> fx.ok /\ fy.ok]
        ELSE [parent |-> p2, rank |-> rk, component_count |-> cc,
              ok |-> fx.ok /\ fy.ok]

\* Faulty variant of union_sets: links the operands themselves, not their roots.
union_sets_links_operands(p, rk, cc, e1, e2) ==
    IF e1 # e2
    THEN IF rk[e1] > rk[e2]
         THEN [parent |-> [p EXCEPT ![e2] = e1], rank |-> rk,
               component_count |-> cc - 1, ok |-> TRUE]
         ELSE IF rk[e1] < rk[e2]
         THEN [parent |-> [p EXCEPT ![e1] = e2], rank |-> rk,
               component_count |-> cc - 1, ok |-> TRUE]
         ELSE [parent |-> [p EXCEPT ![e2] = e1],
               rank |-> [rk EXCEPT ![e1] = rk[e1] + 1],
               component_count |-> cc - 1, ok |-> TRUE]
    ELSE [parent |-> p, rank |-> rk, component_count |-> cc, ok |-> TRUE]

\* Faulty variant of union_sets: the rootX != rootY test is missing.
union_sets_no_guard(p, rk, cc, e1, e2) ==
    LET fx == find(p, e1)
        fy == find(fx.par, e2)
        rootX == fx.ret
        rootY == fy.ret
        p2 == fy.par
    IN  IF rk[rootX] > rk[rootY]
        THEN [parent |-> [p2 EXCEPT ![rootY] = rootX], rank |-> rk,
              component_count |-> cc - 1, ok |-> fx.ok /\ fy.ok]
        ELSE IF rk[rootX] < rk[rootY]
        THEN [parent |-> [p2 EXCEPT ![rootX] = rootY], rank |-> rk,
              component_count |-> cc - 1, ok |-> fx.ok /\ fy.ok]
        ELSE [parent |-> [p2 EXCEPT ![rootY] = rootX],
              rank |-> [rk EXCEPT ![rootX] = rk[rootX] + 1],
              component_count |-> cc - 1, ok |-> fx.ok /\ fy.ok]

\* Faulty variant of union_sets: on a tie rootX goes under rootY and the
\* rank of rootX is the one incremented.
union_sets_tie_under_y(p, rk, cc, e1, e2) ==
    LET fx == find(p, e1)
        fy == find(fx.par, e2)
        rootX == fx.ret
        rootY == fy.ret
        p2 == fy.par
    IN  IF rootX # rootY
        THEN IF rk[rootX] > rk[rootY]
             THEN [parent |-> [p2 EXCEPT ![rootY] = rootX], rank |-> rk,
                   component_count |-> cc - 1, ok |-> fx.ok /\ fy.ok]
             ELSE IF rk[rootX] < rk[rootY]
             THEN [parent |-> [p2 EXCEPT ![rootX] = rootY], rank |-> rk,
                   component_count |-> cc - 1, ok |-> fx.ok /\ fy.ok]
             ELSE [parent |-> [p2 EXCEPT ![rootX] = rootY],
                   rank |-> [rk EXCEPT ![rootX] = rk[rootX] + 1],
                   component_count |-> cc - 1, ok |-> fx.ok /\ fy.ok]
        ELSE [parent |-> p2, rank |-> rk, component_count |-> cc,
              ok |-> fx.ok /\ fy.ok]

\* Faulty variant of union_sets: a tie does not raise the rank of rootX.
union_sets_tie_no_rank(p, rk, cc, e1, e2) ==
    LET fx == find(p, e1)
        fy == find(fx.par, e2)
        rootX == fx.ret
        rootY == fy.ret
        p2 == fy.par
    IN  IF rootX # rootY
        THEN IF rk[rootX] > rk[rootY]
             THEN [parent |-> [p2 EXCEPT ![rootY] = rootX], rank |-> rk,
                   component_count |-> cc - 1, ok |-> fx.ok /\ fy.ok]
             ELSE IF rk[rootX] < rk[rootY]
             THEN [parent |-> [p2 EXCEPT ![rootX] = rootY], rank |-> rk,
                   component_count |-> cc - 1, ok |-> fx.ok /\ fy.ok]
             ELSE [parent |-> [p2 EXCEPT ![rootY] = rootX], rank |-> rk,
                   component_count |-> cc - 1, ok |-> fx.ok /\ fy.ok]
        ELSE [parent |-> p2, rank |-> rk, component_count |-> cc,
              ok |-> fx.ok /\ fy.ok]

\* union_sets(x, y) on the globals (p, rk, cc).
union_sets(p, rk, cc, e1, e2) ==
    LET fx == find(p, e1)
        fy == find(fx.par, e2)
        rootX == fx.ret
        rootY == fy.ret
        p2 == fy.par
    IN  IF rootX # rootY
        THEN IF rk[rootX] > rk[rootY]
             THEN [parent |-> [p2 EXCEPT ![rootY] = rootX], rank |-> rk,
                   component_count |-> cc - 1, ok |-> fx.ok /\ fy.ok]
             ELSE IF rk[rootX] < rk[rootY]
             THEN [parent |-> [p2 EXCEPT ![rootX] = rootY], rank |-> rk,
                   component_count |-> cc - 1, ok |-> fx.ok /\ fy.ok]
             ELSE [parent |-> [p2 EXCEPT ![rootY] = rootX],
                   rank |-> [rk EXCEPT ![rootX] = rk[rootX] + 1],
                   component_count |-> cc - 1, ok |-> fx.ok /\ fy.ok]
        ELSE [parent |-> p2, rank |-> rk, component_count |-> cc,
              ok |-> fx.ok /\ fy.ok]

\* The history partition after merging the classes of e1 and e2.
MergeClasses(pt, e1, e2) ==
    LET m == IF pt[e1] < pt[e2] THEN pt[e1] ELSE pt[e2]
    IN  [e \in DOMAIN pt |-> IF pt[e] = pt[e1] \/ pt[e] = pt[e2] THEN m ELSE pt[e]]

\* ================================================================ SpecDS
\* The structure called directly: initialize(N), then any sequence of
\* find(e) and union_sets(e1, e2) with e, e1, e2 in [0,N).
DSInit ==
    /\ count = 0 /\ ListIdle /\ MarksIdle
    /\ N \in 1 .. MaxN
    /\ Q = 0
    /\ parent = initialize(N).parent
    /\ rank = initialize(N).rank
    /\ component_count = initialize(N).component_count
    /\ F = 0 /\ i = 0 /\ a = 0 /\ b = 0 /\ x = 0 /\ y = 0
    /\ out = <<>>
    /\ pc = "api"
    /\ op = "initialize"
    /\ part = [e \in Nodes(N) |-> e]

\* A call find(e).
DSFind(e) ==
    /\ UNCHANGED <<count, listVars, marksVars>>
    /\ pc = "api"
    /\ LET r == find(parent, e)
       IN  IF r.ok
           THEN parent' = r.par /\ pc' = pc
           ELSE parent' = parent /\ pc' = "crashed"
    /\ op' = "find"
    /\ x' = e /\ y' = e
    /\ UNCHANGED <<N, Q, rank, component_count, F, i, a, b, out, part>>

\* A call union_sets(e1, e2).
DSUnion(e1, e2) ==
    /\ UNCHANGED <<count, listVars, marksVars>>
    /\ pc = "api"
    /\ LET u == union_sets(parent, rank, component_count, e1, e2)
       IN  IF u.ok
           THEN /\ parent' = u.parent
                /\ rank' = u.rank
                /\ component_count' = u.component_count
                /\ part' = MergeClasses(part, e1, e2)
                /\ pc' = pc
           ELSE /\ UNCHANGED <<parent, rank, component_count, part>>
                /\ pc' = "crashed"
    /\ op' = "union_sets"
    /\ x' = e1 /\ y' = e2
    /\ UNCHANGED <<N, Q, F, i, a, b, out>>

DSNext ==
    \/ \E e \in Elems(N) : DSFind(e)
    \/ \E e1 \in Elems(N), e2 \in Elems(N) : DSUnion(e1, e2)

SpecDS == DSInit /\ [][DSNext]_vars

\* ================================================================== Spec
\* ------------------------------------------------------- query decoding
\* Bitwise XOR of two naturals.
RECURSIVE XorNat(_, _)
XorNat(m, n) ==
    IF m = 0 THEN n
    ELSE IF n = 0 THEN m
    ELSE (((m % 2) + (n % 2)) % 2) + (2 * XorNat(m \div 2, n \div 2))

\* ~z in two's complement.
BitNot(z) == (0 - z) - 1

\* a ^ F on long long (two's complement): ~u ^ v = ~(u ^ v), ~u ^ ~v = u ^ v.
\* Exact for operands inside the 64-bit range, which the bounds keep far from.
XorLL(u, v) ==
    IF u >= 0 /\ v >= 0 THEN XorNat(u, v)
    ELSE IF u < 0 /\ v < 0 THEN XorNat(BitNot(u), BitNot(v))
    ELSE IF u < 0 THEN BitNot(XorNat(BitNot(u), v))
    ELSE BitNot(XorNat(u, BitNot(v)))

\* m % n of C for n > 0: the quotient truncates toward zero, so the
\* remainder takes the sign of m.
CRem(m, n) == IF m >= 0 THEN m % n ELSE 0 - ((0 - m) % n)

\* Lines 61-69: x = (a ^ F) % N, y = (b ^ F) % N, swapped when x > y.
Decode(ra, rb, f, n) ==
    LET x0 == CRem(XorLL(ra, f), n)
        y0 == CRem(XorLL(rb, f), n)
    IN  IF x0 > y0 THEN <<y0, x0>> ELSE <<x0, y0>>

\* The raw operands read by scanf("%lld %lld"): the non-negative values up
\* to MaxRaw and the negative value -1 (all bits set: -1 ^ F = -(F + 1), so
\* a ^ F takes a different negative value for every F).
Raw == (0 - 1) .. MaxRaw

\* Faulty variant of IsMergeIndex: the parity test is inverted.
IsMergeIndex_odd(idx) == idx % 2 = 1

\* Line 71: the query at position idx is a merge when idx is even.
IsMergeIndex(idx) == idx % 2 = 0

\* Faulty variant of Accumulate: F = component_count instead of F += component_count.
Accumulate_assigns(f, cc) == cc

\* Lines 74, 79, 82: F += component_count.
Accumulate(f, cc) == f + cc

\* ------------------------------------------- out-of-bounds array access
\* A negative operand makes find read and write parent[x] below the array
\* (undefined behaviour).  What the build placed there decides the outcome:
\*   - the word read is no usable index, and the recursion faults: Crash;
\*   - the word read is an element id g (zero-filled storage reads as 0), so
\*     the call goes on as if it had been given g: Alias is the set of
\*     elements an operand can stand for;
\*   - the store parent[x] = find(parent[x]) of line 15 writes the root it
\*     found over that word, which is either no variable of the program or
\*     component_count: Clobbered is the set of values component_count can
\*     hold after a call that computed cc and stored the root r.
Alias(e, n) == IF e < 0 THEN Elems(n) ELSE {e}

Clobbered(cc, r) == {cc, r}

\* main up to the loop: N and Q are read (N >= 1: with N = 0 the % of line
\* 61 divides by zero), initialize(N) runs, F = 0.  F stays far inside the
\* long long range for the sizes explored, so Accumulate never wraps.
MainInit ==
    /\ count = 0 /\ ListIdle /\ MarksIdle
    /\ N \in 1 .. MaxProgN
    /\ Q \in 0 .. MaxQ
    /\ parent = initialize(N).parent
    /\ rank = initialize(N).rank
    /\ component_count = initialize(N).component_count
    /\ F = 0 /\ i = 0 /\ a = 0 /\ b = 0 /\ x = 0 /\ y = 0
    /\ out = <<>>
    /\ pc = "loop"
    /\ op = "initialize"
    /\ part = [e \in Nodes(N) |-> e]

\* The process dies inside the query (segmentation fault / stack exhaustion).
Crash(ra, rb, d, kind) ==
    /\ pc' = "crashed"
    /\ a' = ra /\ b' = rb /\ x' = d[1] /\ y' = d[2]
    /\ op' = kind
    /\ UNCHANGED <<N, Q, parent, rank, component_count, F, i, out, part>>

\* Even i, operands inside [0,N): union_sets(x, y); F += component_count.
MergeQuery(ra, rb) ==
    /\ UNCHANGED <<count, listVars, marksVars>>
    /\ pc = "loop" /\ i < Q /\ IsMergeIndex(i)
    /\ LET d == Decode(ra, rb, F, N)
       IN  /\ d[1] >= 0
           /\ LET u == union_sets(parent, rank, component_count, d[1], d[2])
              IN  IF u.ok
                  THEN /\ parent' = u.parent
                       /\ rank' = u.rank
                       /\ component_count' = u.component_count
                       /\ F' = Accumulate(F, u.component_count)
                       /\ i' = i + 1
                       /\ part' = MergeClasses(part, d[1], d[2])
                       /\ a' = ra /\ b' = rb /\ x' = d[1] /\ y' = d[2]
                       /\ op' = "merge"
                       /\ UNCHANGED <<N, Q, out, pc>>
                  ELSE Crash(ra, rb, d, "merge")

\* Odd i, operands inside [0,N): print find(x) == find(y); F += component_count.
\* The two calls of the comparison are evaluated in either order.
CheckQuery(ra, rb) ==
    /\ UNCHANGED <<count, listVars, marksVars>>
    /\ pc = "loop" /\ i < Q /\ ~IsMergeIndex(i)
    /\ LET d == Decode(ra, rb, F, N)
       IN  /\ d[1] >= 0
           /\ \E xFirst \in BOOLEAN :
                LET f1 == find(parent, IF xFirst THEN d[1] ELSE d[2])
                    f2 == find(f1.par, IF xFirst THEN d[2] ELSE d[1])
                IN  IF f1.ok /\ f2.ok
                    THEN /\ parent' = f2.par
                         /\ out' = Append(out, IF f1.ret = f2.ret THEN 1 ELSE 0)
                         /\ F' = Accumulate(F, component_count)
                         /\ i' = i + 1
                         /\ a' = ra /\ b' = rb /\ x' = d[1] /\ y' = d[2]
                         /\ op' = "check"
                         /\ UNCHANGED <<N, Q, rank, component_count, pc, part>>
                    ELSE Crash(ra, rb, d, "check")

\* Even i, a negative operand: union_sets runs on parent[x], x < 0.
MergeOutOfBounds(ra, rb) ==
    /\ UNCHANGED <<count, listVars, marksVars>>
    /\ pc = "loop" /\ i < Q /\ IsMergeIndex(i)
    /\ LET d == Decode(ra, rb, F, N)
       IN  /\ d[1] < 0
           /\ \/ Crash(ra, rb, d, "merge")
              \/ \E gx \in Alias(d[1], N), gy \in Alias(d[2], N) :
                    LET u == union_sets(parent, rank, component_count, gx, gy)
                    IN  /\ u.ok
                        /\ parent' = u.parent
                        /\ rank' = u.rank
                        /\ component_count' \in Clobbered(u.component_count, find(u.parent, gx).ret)
                        /\ F' = Accumulate(F, component_count')
                        /\ i' = i + 1
                        /\ a' = ra /\ b' = rb /\ x' = d[1] /\ y' = d[2]
                        /\ op' = "merge"
                        /\ part' = MergeClasses(part, d[1], d[2])
                        /\ UNCHANGED <<N, Q, out, pc>>

\* Odd i, a negative operand: find runs on parent[x], x < 0.
CheckOutOfBounds(ra, rb) ==
    /\ UNCHANGED <<count, listVars, marksVars>>
    /\ pc = "loop" /\ i < Q /\ ~IsMergeIndex(i)
    /\ LET d == Decode(ra, rb, F, N)
       IN  /\ d[1] < 0
           /\ \/ Crash(ra, rb, d, "check")
              \/ \E gx \in Alias(d[1], N), gy \in Alias(d[2], N) :
                    LET f1 == find(parent, gx)
                        f2 == find(f1.par, gy)
                    IN  /\ f1.ok /\ f2.ok
                        /\ parent' = f2.par
                        /\ component_count' \in Clobbered(component_count, f1.ret)
                        /\ out' = Append(out, IF f1.ret = f2.ret THEN 1 ELSE 0)
                        /\ F' = Accumulate(F, component_count')
                        /\ i' = i + 1
                        /\ a' = ra /\ b' = rb /\ x' = d[1] /\ y' = d[2]
                        /\ op' = "check"
                        /\ UNCHANGED <<N, Q, rank, pc, part>>

\* The loop ends: return 0.
Return ==
    /\ UNCHANGED <<count, listVars, marksVars>>
    /\ pc = "loop" /\ i >= Q
    /\ pc' = "done"
    /\ UNCHANGED <<N, Q, parent, rank, component_count, F, i, a, b, x, y, out, op, part>>

Next ==
    \/ \E ra \in Raw, rb \in Raw : MergeQuery(ra, rb)
    \/ \E ra \in Raw, rb \in Raw : CheckQuery(ra, rb)
    \/ \E ra \in Raw, rb \in Raw : MergeOutOfBounds(ra, rb)
    \/ \E ra \in Raw, rb \in Raw : CheckOutOfBounds(ra, rb)
    \/ Return

Spec == MainInit /\ [][Next]_vars

\* ======================================================== observations
\* The representative find reports for e, and the set of roots.
Root(p, e) == find(p, e).ret

Roots(p) == {r \in DOMAIN p : p[r] = r}

\* Following parent pointers from e reaches a root within k steps.
RECURSIVE ReachesRoot(_, _, _)
ReachesRoot(p, e, k) ==
    IF p[e] = e THEN TRUE
    ELSE IF k = 0 THEN FALSE
    ELSE ReachesRoot(p, p[e], k - 1)

\* ============================================= claims checked on SpecDS

\* C2: after initialize and any sequence of find / union_sets calls on
\* elements of [0,N), component_count is the number of roots (elements r
\* with parent[r] = r), which is the number of distinct values of find.
C2_CountIsRoots ==
    /\ component_count = Cardinality(Roots(parent))
    /\ component_count = Cardinality({Root(parent, e) : e \in Elems(N)})

\* C2 witness: some merges have happened and a find ran afterwards.
C2_Witness ==
    /\ op = "find" /\ 2 <= component_count /\ component_count < N - 1
    /\ \E e \in Elems(N) : parent[e] # e /\ rank[parent[e]] = 1

\* C3: parent restricted to [0,N) is a forest: every entry is an element,
\* the walk from any element reaches a root within N - 1 steps (so it
\* revisits nothing), and no call of find fails to return.
C3_Forest ==
    /\ pc = "api"
    /\ \A e \in Elems(N) :
          /\ parent[e] \in Elems(N)
          /\ ReachesRoot(parent, e, N - 1)
          /\ find(parent, e).ok

\* C3 witness: a tree of height two exists after a union.
C3_Witness ==
    /\ op = "union_sets"
    /\ \E e \in Elems(N) : parent[e] # e /\ parent[parent[e]] # parent[e]

\* C9 as stated: union_sets(x, y) with find(x) = find(y) leaves parent,
\* rank and component_count unchanged.
C9_Original ==
    [][(op' = "union_sets" /\ Root(parent, x') = Root(parent, y'))
         => (parent' = parent /\ rank' = rank
             /\ component_count' = component_count)]_vars

\* C9 amended: union_sets(x, y) with find(x) = find(y) leaves rank,
\* component_count and every element's representative unchanged; an entry
\* of parent changes only by path compression, to the element's root.
C9_Amended ==
    [][(op' = "union_sets" /\ Root(parent, x') = Root(parent, y'))
         => (/\ rank' = rank
             /\ component_count' = component_count
             /\ \A e \in Elems(N) :
                   /\ Root(parent', e) = Root(parent, e)
                   /\ parent'[e] \in {parent[e], Root(parent, e)})]_vars

\* C9 witness: union_sets(x, y) ran on two distinct elements of one
\* component (x hangs under y although only one merge ever happened, so
\* this call merged nothing).
C9_Witness ==
    /\ op = "union_sets" /\ x # y
    /\ parent[x] = y /\ rank[y] = 1
    /\ component_count = N - 1

\* C10: find(e) returns a root r (parent[r] = r, find(r) = r); and an
\* element's representative changes only in a union_sets that merged two
\* distinct components, for the elements of the component whose root was
\* absorbed; a find never changes a representative.
C10_Representative ==
    /\ [](\A e \in Elems(N) :
            LET f == find(parent, e)
            IN  /\ f.ok
                /\ f.par[f.ret] = f.ret
                /\ parent[f.ret] = f.ret
                /\ find(f.par, f.ret).ret = f.ret)
    /\ [][\A e \in Elems(N) :
            Root(parent', e) # Root(parent, e)
               => (/\ op' = "union_sets"
                   /\ Root(parent, x') # Root(parent, y')
                   /\ Root(parent, e) \in {Root(parent, x'), Root(parent, y')}
                   /\ Root(parent', e) \in {Root(parent, x'), Root(parent, y')}
                   /\ parent'[Root(parent, e)] # Root(parent, e))]_vars

\* C10 witness: a find ran in a state where a root of rank 1 has been
\* absorbed (its elements changed representative).
C10_Witness ==
    /\ op = "find"
    /\ \E e \in Elems(N) : parent[e] # e /\ rank[e] >= 1 /\ parent[x] = parent[e]

\* C11: a union_sets(x, y) that directly follows a union_sets(x, y) with the
\* same operands changes neither component_count nor rank nor any element's
\* representative, so the value added to F after it is the same.
C11_Idempotent ==
    [][(op = "union_sets" /\ op' = "union_sets" /\ x' = x /\ y' = y)
         => (/\ component_count' = component_count
             /\ rank' = rank
             /\ \A e \in Elems(N) : Root(parent', e) = Root(parent, e))]_vars

\* C11 witness: a union_sets(x, y) on distinct elements that merged nothing
\* ran on the full 4-element tree of rank 2: x and y are both leaves hanging
\* directly under the root, which no merging call leaves behind.
C11_Witness ==
    /\ op = "union_sets" /\ x # y /\ N = 4 /\ component_count = 1
    /\ parent[x] = parent[y] /\ parent[x] \notin {x, y}
    /\ rank[parent[x]] = 2 /\ rank[x] = 0 /\ rank[y] = 0

\* C13: in a union_sets that merges two components the root of strictly
\* greater rank becomes the parent of the other and no rank changes; on a tie
\* rootY goes under rootX and rank[rootX] grows by one.  Besides the path
\* compression of the two finds, only the absorbed root's parent changes.
C13_UnionByRank ==
    [][(op' = "union_sets" /\ Root(parent, x') # Root(parent, y'))
         => LET rootX == Root(parent, x')
                rootY == Root(parent, y')
                absorbed == IF rank[rootX] < rank[rootY] THEN rootX ELSE rootY
                winner   == IF rank[rootX] < rank[rootY] THEN rootY ELSE rootX
            IN  /\ parent'[absorbed] = winner
                /\ parent'[winner] = winner
                /\ rank' = IF rank[rootX] = rank[rootY]
                           THEN [rank EXCEPT ![rootX] = rank[rootX] + 1]
                           ELSE rank
                /\ Cardinality({e \in Elems(N) : rank'[e] # rank[e]}) <= 1
                /\ \A e \in Elems(N) \ {absorbed} :
                      parent'[e] \in {parent[e], Root(parent, e)}]_vars

\* C13 witness: three elements in one tree with a single ranked root (the
\* second merge attached a rank-0 root under the rank-1 root) next to a
\* fourth element that is still alone.
C13_Witness ==
    /\ op = "union_sets" /\ N = 4 /\ component_count = 2
    /\ Cardinality({e \in Elems(N) : rank[e] > 0}) = 1
    /\ Cardinality({e \in Elems(N) : parent[e] = e}) = 2

\* The elements on the parent path from e up to its root, e and the root
\* included (k bounds the walk).
RECURSIVE PathOf(_, _, _)
PathOf(p, e, k) ==
    IF k = 0 \/ p[e] = e THEN {e} ELSE {e} \cup PathOf(p, p[e], k - 1)

\* C14: after find(x) returned r every element that was on the path from x
\* to r has parent r; every other parent entry, rank and component_count are
\* unchanged.
C14_PathCompression ==
    [][op' = "find"
         => LET r == Root(parent, x')
                path == PathOf(parent, x', N)
            IN  /\ r \in path
                /\ \A e \in path : parent'[e] = r
                /\ \A e \in Elems(N) \ path : parent'[e] = parent[e]
                /\ rank' = rank
                /\ component_count' = component_count]_vars

\* C14 witness: a find(x) ran and x, of rank 0, hangs directly under a root
\* of rank 2 that also has a child of rank 1 (in a universe of 4 this shape
\* exists only after x's path was compressed).
C14_Witness ==
    /\ op = "find" /\ N = 4 /\ parent[x] # x /\ rank[x] = 0
    /\ rank[parent[x]] = 2
    /\ \E m \in Elems(N) : m # x /\ parent[m] = parent[x] /\ rank[m] = 1
    /\ \A e \in Elems(N) : parent[e] = parent[x]

\* Number of parent steps from e to its root.
RECURSIVE Depth(_, _, _)
Depth(p, e, k) == IF k = 0 \/ p[e] = e THEN 0 ELSE 1 + Depth(p, p[e], k - 1)

\* Height of the tree rooted at r: the largest depth of one of its elements.
Height(p, r) ==
    LET ds == {Depth(p, e, Cardinality(DOMAIN p)) :
                  e \in {u \in DOMAIN p : Root(p, u) = r}}
    IN  CHOOSE d \in ds : \A d2 \in ds : d2 <= d

\* Number of elements of the tree rooted at r.
TreeSize(p, r) == Cardinality({u \in DOMAIN p : Root(p, u) = r})

RECURSIVE Pow2(_)
Pow2(k) == IF k = 0 THEN 1 ELSE 2 * Pow2(k - 1)

\* C16: every non-root element has a smaller rank than its parent; the rank
\* of a root bounds the height of its tree; a root of rank r has at least
\* 2^r elements, so no rank exceeds floor(log2 N).
C16_RankInvariant ==
    /\ \A e \in Elems(N) : parent[e] # e => rank[e] < rank[parent[e]]
    /\ \A r \in Roots(parent) :
          /\ Height(parent, r) <= rank[r]
          /\ TreeSize(parent, r) >= Pow2(rank[r])
    /\ \A e \in Elems(N) : Pow2(rank[e]) <= N

\* C16 witness: a root of rank 2 over a tree of height 2 with 4 elements.
C16_Witness ==
    \E r \in Elems(N) :
        /\ parent[r] = r /\ rank[r] = 2
        /\ Height(parent, r) = 2 /\ TreeSize(parent, r) = 4

\* =============================================== claims checked on Spec
\* find(x) as a claim about main reads it: an operand outside [0,N) is no
\* element of the universe, so it is in no component but its own.
FindOf(p, e) == IF e \in DOMAIN p THEN Root(p, e) ELSE e

Min2(u, v) == IF u <= v THEN u ELSE v

Max2(u, v) == IF u <= v THEN v ELSE u

\* A step of main that processed one query to its end.
QueryDone == i' = i + 1

\* C1 as stated: for every N >= 1, Q and query stream, after initialize
\* and after each processed query, 1 <= component_count <= N.
C1_Original == 1 <= component_count /\ component_count <= N

\* C4 as stated: find(u) = find(v) exactly when u and v are related by the
\* closure of the pairs given to union_sets so far, and a check query
\* prints 1 exactly when its decoded x and y are so related, 0 otherwise.
C4_Original ==
    pc \in {"loop", "done"}
       => /\ \A u \in Elems(N), v \in Elems(N) :
                (Root(parent, u) = Root(parent, v)) <=> (part[u] = part[v])
          /\ op = "check"
                => out[Len(out)] = (IF part[x] = part[y] THEN 1 ELSE 0)

\* C5 as stated: a merge query lowers component_count by exactly 1 when
\* find(x) != find(y) held before it and leaves it unchanged otherwise; a
\* check query never changes component_count; so it never increases.
C5_Original ==
    [][/\ QueryDone
          => IF i % 2 = 0
             THEN component_count' = component_count -
                    (IF FindOf(parent, x') # FindOf(parent, y') THEN 1 ELSE 0)
             ELSE component_count' = component_count
       /\ component_count' <= component_count]_vars

\* C6: F starts at 0; a query is decoded with the F that held before it;
\* and every processed query, merge or check, adds to F the
\* component_count that holds after it.
C6_Accumulator ==
    /\ [](i = 0 => F = 0)
    /\ [][QueryDone
            => /\ F' = F + component_count'
               /\ x' = Min2(CRem(XorLL(a', F), N), CRem(XorLL(b', F), N))
               /\ y' = Max2(CRem(XorLL(a', F), N), CRem(XorLL(b', F), N))]_vars

\* C6 witness: a merge that merged nothing and a check that printed 0
\* have both added component_count = N to F.
C6_Witness ==
    /\ i = 2 /\ out = <<0>> /\ component_count = N /\ F = 2 * N /\ N >= 2
    /\ x >= 0

\* C7 as stated: the operands handed to union_sets / find are
\* (a XOR F) mod N and (b XOR F) mod N, the smaller one first.
C7_Original ==
    [][(QueryDone \/ pc' = "crashed")
         => /\ x' = Min2(XorLL(a', F) % N, XorLL(b', F) % N)
            /\ y' = Max2(XorLL(a', F) % N, XorLL(b', F) % N)
            /\ x' <= y']_vars

C12_SingleElement ==
    N = 1 => (/\ pc # "crashed"
              /\ x = 0 /\ y = 0
              /\ component_count = 1
              /\ F = i
              /\ \A k \in 1 .. Len(out) : out[k] = 1)

\* C12 witness: a run on N = 1 that finished three queries, the last one a
\* merge with a negative raw operand, and printed one check result.
C12_Witness ==
    /\ N = 1 /\ pc = "done" /\ i = 3 /\ op = "merge"
    /\ a < 0 /\ Len(out) = 1 /\ F = 3

\* C15: every decoded pair satisfies 0 <= x <= y < N, whatever the raw
\* operands (negative ones included), so parent and rank are only indexed
\* inside [0, N).
C15_Original ==
    op \in {"merge", "check"} => (0 <= x /\ x <= y /\ y < N)

\* ============================================================== SpecList
\* main() of kadai12.c: the list of students is loaded, then the menu loop
\* runs push (insertCell), pop (deleteCell) and quit.  A cell is modelled as
\* a record of its data fields and the list as the sequence of the cells
\* reachable from head.

\* #define NUM (100): the capacity of stub.
NUM == 100
\* Largest count explored, and the largest number of records in the file.
MaxCount == 3
MaxFile == 1

\* The cell main builds before reading the file (total is set by calcSum).
HeadCell ==
    [id |-> 1001, name |-> "HYOGO_CHIKA", eng |-> 132, math |-> 163,
     jpn |-> 43, total |-> 0]

\* Values typed in, or read from the file, for a new student.
NewIds == {1002, 1003}
NewNames == {"A", "B"}
NewScores == {<<10, 20, 30>>, <<200, 100, 50>>}
NewCells ==
    {[id |-> d, name |-> nm, eng |-> sc[1], math |-> sc[2], jpn |-> sc[3],
      total |-> 0] : d \in NewIds, nm \in NewNames, sc \in NewScores}
\* Values typed in for prevNum and prevName; 1009 and "Z" are in no cell.
PrevNums == {1001, 1002, 1009}
PrevNames == {"HYOGO_CHIKA", "A", "B", "Z"}

\* What an entry of stub holds before copy wrote it: stub is an automatic
\* array, its content is indeterminate.
JunkCells ==
    {[id |-> 0, name |-> "", eng |-> 0, math |-> 0, jpn |-> 0, total |-> t] :
        t \in {0, 1000}}

RemoveAt(lst, k) == [j \in 1 .. (Len(lst) - 1) |-> IF j < k THEN lst[j] ELSE lst[j + 1]]
InsertAfter(lst, k, c) ==
    [j \in 1 .. (Len(lst) + 1) |->
        IF j <= k THEN lst[j] ELSE IF j = k + 1 THEN c ELSE lst[j - 1]]
Least(S) == CHOOSE k \in S : \A k2 \in S : k <= k2

\* insertCell: the new cell goes after the first cell whose id is pn; when
\* no cell has that id the function returns without inserting.
insertCell(lst, c, pn) ==
    LET found == {k \in 1 .. Len(lst) : lst[k].id = pn}
    IN  IF found = {} THEN lst
        ELSE InsertAfter(lst, Least(found), [c EXCEPT !.total = 0])

\* Faulty variant of deleteCell: the named cell itself is removed (the head
\* case removes the successor as the code does).
deleteCell_removes_named(lst, nm) ==
    IF lst[1].name = nm
    THEN IF Len(lst) = 1 THEN [list |-> lst, ret |-> 0]
         ELSE [list |-> RemoveAt(lst, 2), ret |-> 1]
    ELSE LET found == {k \in 1 .. (Len(lst) - 1) : lst[k].name = nm}
         IN  IF found = {} THEN [list |-> lst, ret |-> 0]
             ELSE [list |-> RemoveAt(lst, Least(found)), ret |-> 1]

\* deleteCell: when head has the name, head's successor is removed if there
\* is one; otherwise q walks the cells that have a successor up to the first
\* one with the name and that cell's successor is removed.
deleteCell(lst, nm) ==
    IF lst[1].name = nm
    THEN IF Len(lst) = 1 THEN [list |-> lst, ret |-> 0]
         ELSE [list |-> RemoveAt(lst, 2), ret |-> 1]
    ELSE LET found == {k \in 1 .. (Len(lst) - 1) : lst[k].name = nm}
         IN  IF found = {} THEN [list |-> lst, ret |-> 0]
             ELSE [list |-> RemoveAt(lst, Least(found) + 1), ret |-> 1]

\* calcSum: total = eng + math + jpn in every cell of the list.
calcSum(lst) ==
    [k \in 1 .. Len(lst) |->
        [lst[k] EXCEPT !.total = lst[k].eng + lst[k].math + lst[k].jpn]]

\* copy(sb, n): the first n cells of the list, as far as the list goes, are
\* copied to sb[0 .. n-1]; the other entries of sb keep their content.
copy(sb, lst, n) ==
    [k \in 1 .. Len(sb) |-> IF k <= n /\ k <= Len(lst) THEN lst[k] ELSE sb[k]]

Swap(s, j, k) == [s EXCEPT ![j] = s[k], ![k] = s[j]]

\* sort(s, n): exchange sort of s[0 .. n-1], descending total (indices are
\* the C ones, the sequence is 1-based).
RECURSIVE sortInner(_, _, _, _)
sortInner(s, ci, cj, n) ==
    IF cj >= n THEN s
    ELSE sortInner(IF s[ci + 1].total < s[cj + 1].total
                   THEN Swap(s, ci + 1, cj + 1) ELSE s, ci, cj + 1, n)
RECURSIVE sortOuter(_, _, _)
sortOuter(s, ci, n) ==
    IF ci >= n - 1 THEN s ELSE sortOuter(sortInner(s, ci, ci + 1, n), ci + 1, n)
sort(s, n) == sortOuter(s, 0, n)

\* main up to the menu loop: head cell, the records of the file, count,
\* calcSum, copy, sort.
ListInit ==
    /\ UFIdle /\ MarksIdle
    /\ \E k \in 0 .. MaxFile : \E file \in [1 .. k -> NewCells] :
          list = calcSum(<<HeadCell>> \o file)
    /\ count = Len(list)
    /\ \E junk \in JunkCells :
          stub = sort(copy([k \in 1 .. MaxCount |-> junk], list, count), count)
    /\ prevName = "" /\ delRet = 0
    /\ pc = "menu" /\ op = "load"

\* select == 1.
Push(pn, c) ==
    /\ pc = "menu" /\ count < MaxCount
    /\ IF count >= NUM
       THEN op' = "push_full" /\ UNCHANGED <<list, count, stub>>
       ELSE /\ list' = calcSum(insertCell(list, c, pn))
            /\ count' = count + 1
            /\ stub' = sort(copy(stub, list', count'), count')
            /\ op' = "push"
    /\ UNCHANGED <<ufVars, marksVars, pc, prevName, delRet>>

\* select == 2 with count <= 1: nothing to delete.
PopRefused ==
    /\ pc = "menu" /\ count <= 1
    /\ op' = "pop_refused"
    /\ UNCHANGED <<ufVars, marksVars, pc, list, count, stub, prevName, delRet>>

\* select == 2: deleteCell(prevName); on success count--, calcSum, copy, sort.
Pop(nm) ==
    /\ pc = "menu" /\ count > 1
    /\ LET r == deleteCell(list, nm)
       IN  /\ delRet' = r.ret
           /\ IF r.ret # 0
              THEN /\ list' = calcSum(r.list)
                   /\ count' = count - 1
                   /\ stub' = sort(copy(stub, list', count'), count')
              ELSE UNCHANGED <<list, count, stub>>
    /\ prevName' = nm
    /\ op' = "pop"
    /\ UNCHANGED <<ufVars, marksVars, pc>>

\* Any other select: "can't".
Invalid ==
    /\ pc = "menu"
    /\ op' = "invalid"
    /\ UNCHANGED <<ufVars, marksVars, pc, list, count, stub, prevName, delRet>>

\* select == 3.
Quit ==
    /\ pc = "menu"
    /\ pc' = "done" /\ op' = "quit"
    /\ UNCHANGED <<ufVars, marksVars, list, count, stub, prevName, delRet>>

ListNext ==
    \/ \E pn \in PrevNums, c \in NewCells : Push(pn, c)
    \/ PopRefused
    \/ \E nm \in PrevNames : Pop(nm)
    \/ Invalid
    \/ Quit

SpecList == ListInit /\ [][ListNext]_vars

\* ------------------------------------------- claims checked on SpecList
\* Number of entries among the first n of s equal to c.
Occurrences(s, n, c) == Cardinality({k \in 1 .. n : s[k] = c})

\* C17: after every menu operation count is the number of cells in the list,
\* and the first count entries of stub are exactly the cells of the list (in
\* some order); so a push naming an id that is not in the list changes
\* neither the list nor count.
C17_Original ==
    /\ count = Len(list)
    /\ count <= Len(stub)
    /\ \A k \in 1 .. Len(list) :
          Occurrences(stub, count, list[k]) = Occurrences(list, Len(list), list[k])

LEN == 30
TEXTLEN == 100

DigitVal ==
    [c \in {"0", "1", "2", "3", "4", "5", "6", "7", "8", "9"} |->
        CASE c = "0" -> 0 [] c = "1" -> 1 [] c = "2" -> 2 [] c = "3" -> 3
          [] c = "4" -> 4 [] c = "5" -> 5 [] c = "6" -> 6 [] c = "7" -> 7
          [] c = "8" -> 8 [] c = "9" -> 9]

\* count_digits(from): the number of digit characters from offset from on
\* (the terminating '\0' is no digit).
RECURSIVE count_digits(_, _)
count_digits(in, from) ==
    IF from < Len(in) /\ in[from + 1] \in DOMAIN DigitVal
    THEN 1 + count_digits(in, from + 1) ELSE 0

\* digits_to_int(from, to): the decimal value of in[from .. to-1].  The
\* texts explored have at most two digits in a row, far from INT_MAX.
RECURSIVE digits_to_int_from(_, _, _, _)
digits_to_int_from(in, from, to, result) ==
    IF from < to
    THEN digits_to_int_from(in, from + 1, to, (result * 10) + DigitVal[in[from + 1]])
    ELSE result
digits_to_int(in, from, to) == digits_to_int_from(in, from, to, 0)

\* The texts explored: one instruction (a character followed by zero, one or
\* two digits) repeated as often as fits into TEXTLEN characters.
Houkous == {"N", "S", "E", "W", "X"}
Kyoris == {<<>>, <<"7">>, <<"1", "2">>}
Instructions == {<<h>> \o k : h \in Houkous, k \in Kyoris}
Repeat(u, r) == [j \in 1 .. (r * Len(u)) |-> u[((j - 1) % Len(u)) + 1]]

\* main up to the loop of process_insts: read_input stored at most TEXTLEN
\* characters; x = y = 0 is written to index 0 and count is 1.
InstsInit ==
    /\ UFIdle /\ ListIdle
    /\ \E u \in Instructions : \E r \in 0 .. (TEXTLEN \div Len(u)) :
          input = Repeat(u, r)
    /\ pos = 0 /\ px = 0 /\ py = 0
    /\ xs = <<0>> /\ ys = <<0>> /\ count = 1
    /\ xs0 = <<>> /\ ys0 = <<>>
    /\ pc = "parse" /\ op = "read_input"

\* The new value of (x, y) after the instruction at offset pos.
Moved(in, p, vx, vy) ==
    LET houkou == in[p + 1]
        digits == count_digits(in, p + 1)
        kyori == digits_to_int(in, p + 1, p + 1 + digits)
    IN  [next |-> p + 1 + digits,
         x |-> IF houkou = "E" THEN vx + kyori
               ELSE IF houkou = "W" THEN vx - kyori ELSE vx,
         y |-> IF houkou = "N" THEN vy + kyori
               ELSE IF houkou = "S" THEN vy - kyori ELSE vy]

\* One turn of the loop whose writes xs[count], ys[count] are inside Xs, Ys.
Inst ==
    /\ pc = "parse" /\ pos < Len(input) /\ count < LEN
    /\ LET m == Moved(input, pos, px, py)
       IN  /\ pos' = m.next /\ px' = m.x /\ py' = m.y
           /\ xs' = Append(xs, m.x) /\ ys' = Append(ys, m.y)
    /\ count' = count + 1
    /\ op' = "inst"
    /\ UNCHANGED <<ufVars, listVars, input, xs0, ys0, pc>>

\* One turn of the loop with count >= LEN: xs[count] and ys[count] are
\* written behind the arrays.  The process dies, or the stores land in
\* memory the loop does not read and the loop goes on.
InstOverrun ==
    /\ pc = "parse" /\ pos < Len(input) /\ count >= LEN
    /\ LET m == Moved(input, pos, px, py)
       IN  \/ /\ pc' = "crashed"
              /\ UNCHANGED <<pos, px, py, count>>
           \/ /\ pos' = m.next /\ px' = m.x /\ py' = m.y
              /\ count' = count + 1
              /\ pc' = pc
    /\ op' = "inst"
    /\ UNCHANGED <<ufVars, listVars, input, xs, ys, xs0, ys0>>

\* *in == '\0': return count.
InstsReturn ==
    /\ pc = "parse" /\ pos >= Len(input)
    /\ pc' = "returned" /\ op' = "return"
    /\ UNCHANGED <<ufVars, listVars, marksVars, count>>

InstsNext ==
    \/ Inst
    \/ InstOverrun
    \/ InstsReturn

SpecInsts == InstsInit /\ [][InstsNext]_vars

\* ------------------------------------------ claims checked on SpecInsts
\* C18: for every text read_input accepts, the number of marks written by
\* process_insts (1 + the number of instructions) never exceeds LEN, so the
\* indices written are 0 .. LEN-1.
C18_Original == count <= LEN

\* ============================================================== SpecSort
\* sort_marks of kadai13.c on arbitrary arrays xs, ys of length n = count.
MaxMarks == 3
MaxCoord == 1
Coords == (0 - 1) .. MaxCoord

SwapMarks(m, j, k) ==
    [xs |-> [m.xs EXCEPT ![j] = m.xs[k], ![k] = m.xs[j]],
     ys |-> [m.ys EXCEPT ![j] = m.ys[k], ![k] = m.ys[j]]]

\* Faulty variant of the comparison: the y coordinates are not compared.
MarkAfter_x_only(m, j, k) == m.xs[j] > m.xs[k]

\* The comparison of line 93 (j, k are 1-based).
MarkAfter(m, j, k) ==
    m.xs[j] > m.xs[k] \/ (m.xs[j] = m.xs[k] /\ m.ys[j] > m.ys[k])

\* sort_marks(n, xs, ys): exchange sort on the pairs (indices are the C
\* ones, the sequences are 1-based).
RECURSIVE sortMarksInner(_, _, _, _)
sortMarksInner(m, ci, cj, n) ==
    IF cj >= n THEN m
    ELSE sortMarksInner(IF MarkAfter(m, ci + 1, cj + 1)
                        THEN SwapMarks(m, ci + 1, cj + 1) ELSE m, ci, cj + 1, n)
RECURSIVE sortMarksOuter(_, _, _)
sortMarksOuter(m, ci, n) ==
    IF ci >= n - 1 THEN m
    ELSE sortMarksOuter(sortMarksInner(m, ci, ci + 1, n), ci + 1, n)
sort_marks(n, vx, vy) == sortMarksOuter([xs |-> vx, ys |-> vy], 0, n)

SortInit ==
    /\ UFIdle /\ ListIdle
    /\ count \in 0 .. MaxMarks
    /\ xs \in [1 .. count -> Coords] /\ ys \in [1 .. count -> Coords]
    /\ xs0 = xs /\ ys0 = ys
    /\ input = <<>> /\ pos = 0 /\ px = 0 /\ py = 0
    /\ pc = "unsorted" /\ op = "process_insts"

\* The call sort_marks(n, Xs, Ys).
SortMarks ==
    /\ pc = "unsorted"
    /\ LET m == sort_marks(count, xs, ys)
       IN  xs' = m.xs /\ ys' = m.ys
    /\ pc' = "sorted" /\ op' = "sort_marks"
    /\ UNCHANGED <<ufVars, listVars, count, input, pos, px, py, xs0, ys0>>

SortNext == SortMarks

SpecSort == SortInit /\ [][SortNext]_vars

\* ------------------------------------------- claims checked on SpecSort
PairCount(vx, vy, n, qx, qy) ==
    Cardinality({k \in 1 .. n : vx[k] = qx /\ vy[k] = qy})

\* C20: after sort_marks the pairs (xs[i], ys[i]) are the pairs handed in,
\* each as often as before, in non-decreasing lexicographic order.
C20_SortedPermutation ==
    pc = "sorted" =>
       /\ Len(xs) = count /\ Len(ys) = count
       /\ \A k \in 1 .. count :
             PairCount(xs, ys, count, xs[k], ys[k])
                = PairCount(xs0, ys0, count, xs[k], ys[k])
       /\ \A k \in 1 .. count :
             PairCount(xs, ys, count, xs0[k], ys0[k])
                = PairCount(xs0, ys0, count, xs0[k], ys0[k])
       /\ \A k \in 1 .. (count - 1) :
             xs[k] < xs[k + 1] \/ (xs[k] = xs[k + 1] /\ ys[k] <= ys[k + 1])

\* C20 witness: three marks were sorted that came in descending order, two
\* of them with equal x and the y values the wrong way round.
C20_Witness ==
    /\ pc = "sorted" /\ count = 3
    /\ xs0[1] > xs0[2] /\ xs0[2] = xs0[3] /\ ys0[2] > ys0[3]
    /\ xs # xs0 /\ ys # ys0

====
